---- MODULE Spec2Model ----
(***************************************************************************)
(* WatchTower: a poll-based drop-folder dispatcher.                        *)
(*                                                                         *)
(*   watchtower/Triggers.py  pattern validation, compilation and matching  *)
(*   watchtower/WatchMan.py  the scan / match / dispatch / cleanup loop    *)
(*   watchtower/Action.py    the action contract                           *)
(*                                                                         *)
(* Strings are sequences of one-character strings.  The specifications of  *)
(* this module:                                                            *)
(*   SpecTrig  construction of one trigger and one call of its             *)
(*             getFilenameMatches, over every bounded pattern              *)
(*   SpecLines the line list built from the contents of a matched file     *)
(*   SpecRoot  the rootDir argument of WatchMan.__init__                   *)
(*   Spec      WatchMan.run with its environment (producers, the watched   *)
(*             directory, termination signals)                             *)
(*   SpecLive  WatchMan.run, the process being scheduled (weak fairness)   *)
(***************************************************************************)
EXTENDS Naturals, Integers, Sequences, FiniteSets, TLC

VARIABLES
    \* ---- one trigger under construction (SpecTrig) ----
    tCls,          \* the class being instantiated
    tInput,        \* the pattern argument: [type, chars]
    tActionOk,     \* whether the action argument is an Action instance
    tpc,           \* "new" | "built" | "failed" | "matched" | "matchRaised"
    tObj,          \* the result of __init__ (see NewTrigger)
    tCands,        \* the candidate set handed to getFilenameMatches
    tResult,       \* what getFilenameMatches returned
    \* ---- the contents of one matched file (SpecLines) ----
    lContents,     \* what f.read() returned
    lData,         \* the line list built from it
    lpc,           \* "read" | "split"
    \* ---- one WatchMan under construction (SpecRoot) ----
    rArg,          \* the rootDir argument
    rCwd,          \* the working directory of the process
    rRootDir,      \* self.rootDir after __init__
    rpc,           \* "new" | "built" | "failed"
    \* ---- WatchMan configuration (fixed by __init__) ----
    pyMajor,           \* major version of the interpreter running the loop
    triggers,          \* self.triggers
    canMatchMultiple,  \* self.canMatchMultiple
    pollTime,          \* self.pollTime, in ticks
    stopCheckInterval, \* self.stopCheckInterval, in ticks
    \* ---- WatchMan.run ----
    pc,                \* position of the process in run()
    keepGoing,         \* self.keepGoing
    sigHandler,        \* disposition of SIGTERM/SIGINT: "default" | "die"
    directoryContents, \* the listing of the current cycle
    remainingContents,
    matchedThisIteration,
    ti,                \* index of the trigger being processed
    matches,           \* matches of the current trigger still to be read
    namesAndData,      \* name -> line list, for the current trigger
    allMatches,        \* keys of namesAndData still to be dispatched
    match,             \* the file between runAction and os.remove
    timeSlept,
    \* ---- environment ----
    dirExists,         \* the watched directory can be listed
    dirFiles,          \* regular files present in the watched directory
    \* ---- history of the current cycle (observation only) ----
    offered,           \* <<trigger index, name>>: name was in the set given to the trigger
    dispatched,        \* <<trigger index, name, data>>: runAction was called
    readFailed,        \* <<trigger index, name>>: the read of name failed
    removeTried,       \* name -> number of os.remove attempts
    actionRaised,      \* names whose action raised
    removeFailed,      \* names whose os.remove raised
    carried,           \* names listed now whose os.remove raised in the cycle before
    scan,              \* outcome of the latest listing: "none" | "ok" | "failed"
    exitedFrom,        \* pc the process was at when it ended
    cancelAt,          \* pc at which the handled termination signal arrived
    sleepInterrupted,  \* the sleep in progress was cut short by a signal
    sleptSinceCancel5  \* 5 x ticks slept after the handled signal

trigVars == <<tCls, tInput, tActionOk, tpc, tObj, tCands, tResult>>
lineVars == <<lContents, lData, lpc>>
rootVars == <<rArg, rCwd, rRootDir, rpc>>
unitVars == <<trigVars, lineVars, rootVars>>
confVars == <<pyMajor, triggers, canMatchMultiple, pollTime, stopCheckInterval>>
runVars  == <<pc, keepGoing, sigHandler, directoryContents, remainingContents,
              matchedThisIteration, ti, matches, namesAndData, allMatches,
              match, timeSlept>>
envVars  == <<dirExists, dirFiles>>
histVars == <<offered, dispatched, readFailed, removeTried, actionRaised,
              removeFailed, carried,
              scan, exitedFrom, cancelAt, sleepInterrupted, sleptSinceCancel5>>
loopVars == <<confVars, runVars, envVars, histVars>>
vars     == <<unitVars, loopVars>>

(***************************************************************************)
(* Bounds                                                                  *)
(***************************************************************************)
MaxLen   == 3   \* longest pattern drawn for a trigger
MaxCands == 2   \* largest candidate set handed to one getFilenameMatches call

\* characters patterns are drawn from
Chars == {"a", "A", ".", "/", "*", "?", "^"}

RECURSIVE Strings(_)
Strings(n) ==
    IF n = 0 THEN {<< >>}
    ELSE LET shorter == Strings(n - 1)
         IN  shorter \cup {Append(s, c) : s \in {t \in shorter : Len(t) = n - 1}, c \in Chars}

\* the names a directory listing or a candidate set can hold
Names == {<<"a">>, <<"A">>, <<"a", "a">>, <<"A", "a">>, <<"b">>, <<"?">>}

(***************************************************************************)
(* Python string and re / fnmatch primitives                               *)
(***************************************************************************)
\* str.lower() on one character
LowerChar(c) == IF c = "A" THEN "a" ELSE c

\* str.lower()
Lower(s) == [i \in 1..Len(s) |-> LowerChar(s[i])]

\* '/' in s, and friends
Contains(s, c) == \E i \in 1..Len(s) : s[i] = c

\* sre_parse on the pattern source: a repeat character needs an item before
\* it that is neither an anchor nor already a repeat
\* ("nothing to repeat" / "multiple repeat")
RECURSIVE ReParses(_, _, _)
ReParses(p, i, prev) ==
    IF i > Len(p) THEN TRUE
    ELSE IF p[i] \in {"*", "?"}
         THEN CASE prev = "atom"   -> ReParses(p, i + 1, "repeat")
                [] prev = "repeat" -> p[i] = "?" /\ ReParses(p, i + 1, "lazy")
                [] OTHER           -> FALSE
         ELSE IF p[i] = "^" THEN ReParses(p, i + 1, "at")
              ELSE ReParses(p, i + 1, "atom")

\* re.compile(p) succeeds
ReCompiles(p) == ReParses(p, 1, "none")

\* number of pattern characters taken by the item at i with its repeat suffix
ReItemWidth(p, i) ==
    IF i + 1 <= Len(p) /\ p[i + 1] \in {"*", "?"}
    THEN IF i + 2 <= Len(p) /\ p[i + 2] = "?" THEN 3 ELSE 2
    ELSE 1

\* the item at i matches the character s[j]
ReAtomMatches(p, i, s, j) == j <= Len(s) /\ (p[i] = "." \/ p[i] = s[j])

\* compiled.match(s) from pattern position i and string position j: the
\* match is anchored at the start of s and need not reach its end
RECURSIVE ReMatchHere(_, _, _, _)
ReMatchHere(p, i, s, j) ==
    IF i > Len(p) THEN TRUE
    ELSE IF p[i] = "^" THEN j = 1 /\ ReMatchHere(p, i + 1, s, j)
    ELSE LET w == ReItemWidth(p, i) IN
         CASE w = 1 -> ReAtomMatches(p, i, s, j) /\ ReMatchHere(p, i + 1, s, j + 1)
           [] p[i + 1] = "?" ->
                 \/ ReMatchHere(p, i + w, s, j)
                 \/ ReAtomMatches(p, i, s, j) /\ ReMatchHere(p, i + w, s, j + 1)
           [] OTHER ->
                 \/ ReMatchHere(p, i + w, s, j)
                 \/ ReAtomMatches(p, i, s, j) /\ ReMatchHere(p, i, s, j + 1)

\* bool(re.compile(p).match(s))
ReMatch(p, s) == ReMatchHere(p, 1, s, 1)

\* fnmatch: '*' any run, '?' any one character, the rest literal, whole name
RECURSIVE GlobMatchHere(_, _, _, _)
GlobMatchHere(p, i, s, j) ==
    IF i > Len(p) THEN j > Len(s)
    ELSE CASE p[i] = "*" -> \/ GlobMatchHere(p, i + 1, s, j)
                            \/ j <= Len(s) /\ GlobMatchHere(p, i, s, j + 1)
           [] p[i] = "?" -> j <= Len(s) /\ GlobMatchHere(p, i + 1, s, j + 1)
           [] OTHER      -> j <= Len(s) /\ p[i] = s[j] /\ GlobMatchHere(p, i + 1, s, j + 1)

\* fnmatch.fnmatchcase(s, p), which fnmatch.filter applies on POSIX
GlobMatch(p, s) == GlobMatchHere(p, 1, s, 1)

(***************************************************************************)
(* Triggers.py                                                             *)
(***************************************************************************)
Classes == {"Trigger", "TriggerRE", "TriggerGlob", "TriggerExactMatch",
            "TriggerCaseInsensitiveMatch"}

\* a pattern argument: a string, an already compiled regular expression
\* (chars is then its source), or an object of some other type
StrPattern(s)      == [type |-> "str", chars |-> s]
CompiledPattern(s) == [type |-> "compiled", chars |-> s]
OtherPattern       == [type |-> "other", chars |-> << >>]

StringTypes             == {"str"}
StringTypesOrCompiledRE == {"str", "compiled"}

_VALIDATE_NONE            == 0
_VALIDATE_STRING_BAD_TYPE == 1
_VALIDATE_STRING_EMPTY    == 2
_VALIDATE_STRING_BAD_SLASH == 3
_VALIDATE_STRING_DOTS     == 4

\* bool(allDotsRE.match(s)) for a string s
allDotsRE(s) == Len(s) > 0 /\ \A i \in 1..Len(s) : s[i] = "."

\* bool(validGlobRE.match(s)): re.match tries the pattern at position 0 only
validGlobRE(s) == Len(s) > 0 /\ s[1] \in {"*", "?"}

\* cls._getValidTypes()
_getValidTypes(cls) ==
    IF cls = "TriggerRE" THEN StringTypesOrCompiledRE ELSE StringTypes

\* _genericValidatePattern raises TypeError instead of returning:
\* allDotsRE.match is handed a compiled expression, which is no string
\* (a compiled expression is truthy, so the emptiness test lets it through)
_genericValidateRaises(theString, allowedTypes) ==
    theString.type \in allowedTypes /\ theString.type = "compiled"

\* _genericValidatePattern without its test for '/'
_genericValidatePattern_NoSlash(theString, allowedTypes) ==
    IF theString.type \notin allowedTypes THEN _VALIDATE_STRING_BAD_TYPE
    ELSE IF Len(theString.chars) = 0      THEN _VALIDATE_STRING_EMPTY
    ELSE IF allDotsRE(theString.chars)    THEN _VALIDATE_STRING_DOTS
    ELSE _VALIDATE_NONE

\* the value _genericValidatePattern returns when it returns
_genericValidatePattern(theString, allowedTypes) ==
    IF theString.type \notin allowedTypes THEN _VALIDATE_STRING_BAD_TYPE
    ELSE IF Len(theString.chars) = 0      THEN _VALIDATE_STRING_EMPTY
    ELSE IF allDotsRE(theString.chars)    THEN _VALIDATE_STRING_DOTS
    ELSE IF Contains(theString.chars, "/") THEN _VALIDATE_STRING_BAD_SLASH
    ELSE _VALIDATE_NONE

\* Trigger._validatePattern: "ok" or the exception raised
Trigger_validatePattern(cls, theString) ==
    IF _genericValidateRaises(theString, _getValidTypes(cls)) THEN "TypeError"
    ELSE IF _genericValidatePattern(theString, _getValidTypes(cls)) = _VALIDATE_NONE
         THEN "ok"
         ELSE "ValueError"

\* TriggerGlob._validatePattern
TriggerGlob_validatePattern(pattern) ==
    IF Trigger_validatePattern("Trigger", pattern) # "ok"
    THEN Trigger_validatePattern("Trigger", pattern)
    ELSE IF validGlobRE(pattern.chars) THEN "ok" ELSE "ValueError"

\* self._validatePattern(pattern), by class
_validatePattern(cls, pattern) ==
    IF cls = "TriggerGlob" THEN TriggerGlob_validatePattern(pattern)
    ELSE Trigger_validatePattern(cls, pattern)

\* self._processPattern(pattern) raises (re.compile on an invalid expression)
_processPatternRaises(cls, pattern) ==
    cls = "TriggerRE" /\ pattern.type = "str" /\ ~ReCompiles(pattern.chars)

\* self._processPattern(pattern): the stored self.pattern
_processPattern(cls, pattern) ==
    CASE cls = "TriggerRE" -> CompiledPattern(pattern.chars)
      [] cls = "TriggerCaseInsensitiveMatch" -> StrPattern(Lower(pattern.chars))
      [] OTHER -> pattern

\* Trigger.__init__: outcome is "ok" or the exception that left the
\* constructor; stage is the step that was running when it ended
NewTrigger(cls, pattern, actionIsAction) ==
    IF _validatePattern(cls, pattern) # "ok"
    THEN [outcome |-> _validatePattern(cls, pattern), stage |-> "validate",
          cls |-> cls, pattern |-> OtherPattern]
    ELSE IF _processPatternRaises(cls, pattern)
    THEN [outcome |-> "re.error", stage |-> "process",
          cls |-> cls, pattern |-> OtherPattern]
    ELSE IF ~actionIsAction
    THEN [outcome |-> "ValueError", stage |-> "action",
          cls |-> cls, pattern |-> _processPattern(cls, pattern)]
    ELSE [outcome |-> "ok", stage |-> "done",
          cls |-> cls, pattern |-> _processPattern(cls, pattern)]

\* getFilenameMatches raises: the base class calls NotImplemented
getFilenameMatchesRaises(trigger) == trigger.cls = "Trigger"

\* TriggerRE.getFilenameMatches
TriggerRE_getFilenameMatches(pattern, contents) ==
    {{item \in contents : ReMatch(pattern.chars, item)}}

\* TriggerGlob.getFilenameMatches
TriggerGlob_getFilenameMatches(pattern, contents) ==
    {{item \in contents : GlobMatch(pattern.chars, item)}}

\* TriggerExactMatch.getFilenameMatches
TriggerExactMatch_getFilenameMatches(pattern, contents) ==
    IF pattern.chars \in contents THEN {{pattern.chars}} ELSE {{}}

\* TriggerCaseInsensitiveMatch.getFilenameMatches: returns at the first item
\* of the iteration whose lower-cased form equals the pattern; a set is
\* iterated in no particular order, so any such item can be the one returned
TriggerCaseInsensitiveMatch_getFilenameMatches(pattern, contents) ==
    IF \E item \in contents : Lower(item) = pattern.chars
    THEN {{item} : item \in {c \in contents : Lower(c) = pattern.chars}}
    ELSE {{}}

\* the values trigger.getFilenameMatches(contents) can return (as sets)
getFilenameMatches(trigger, contents) ==
    CASE trigger.cls = "TriggerRE" ->
             TriggerRE_getFilenameMatches(trigger.pattern, contents)
      [] trigger.cls = "TriggerGlob" ->
             TriggerGlob_getFilenameMatches(trigger.pattern, contents)
      [] trigger.cls = "TriggerExactMatch" ->
             TriggerExactMatch_getFilenameMatches(trigger.pattern, contents)
      [] trigger.cls = "TriggerCaseInsensitiveMatch" ->
             TriggerCaseInsensitiveMatch_getFilenameMatches(trigger.pattern, contents)
      [] OTHER -> {}

(***************************************************************************)
(* SpecTrig: one trigger is constructed from every bounded input, then     *)
(* asked once for its matches in a bounded candidate set.                  *)
(***************************************************************************)
PatternInputs ==
    {StrPattern(s) : s \in Strings(MaxLen)}
      \cup {CompiledPattern(s) : s \in {t \in Strings(MaxLen) : ReCompiles(t)}}
      \cup {OtherPattern}

CandSets == {S \in SUBSET Names : Cardinality(S) <= MaxCands}

NoTrigger == [outcome |-> "none", stage |-> "none", cls |-> "none",
              pattern |-> OtherPattern]

\* the trigger variables while no trigger is under construction
TrigIdle ==
    /\ tCls = "none" /\ tInput = OtherPattern /\ tActionOk = FALSE
    /\ tpc = "idle" /\ tObj = NoTrigger /\ tCands = {} /\ tResult = {}

\* the line-list variables while no file is being read
LinesIdle == lContents = << >> /\ lData = << >> /\ lpc = "idle"

\* the rootDir variables while no WatchMan is under construction
RootIdle == rArg = << >> /\ rCwd = << >> /\ rRootDir = << >> /\ rpc = "idle"

\* the WatchMan variables while no WatchMan exists
LoopIdle ==
    /\ pyMajor = 2 /\ triggers = << >> /\ canMatchMultiple = FALSE
    /\ pollTime = 0 /\ stopCheckInterval = 0
    /\ pc = "none" /\ keepGoing = FALSE /\ sigHandler = "default"
    /\ directoryContents = {} /\ remainingContents = {}
    /\ matchedThisIteration = {} /\ ti = 0 /\ matches = {}
    /\ namesAndData = << >> /\ allMatches = {} /\ match = << >>
    /\ timeSlept = 0
    /\ dirExists = FALSE /\ dirFiles = {}
    /\ offered = {} /\ dispatched = {} /\ readFailed = {}
    /\ removeTried = << >> /\ actionRaised = {} /\ scan = "none"
    /\ removeFailed = {} /\ carried = {}
    /\ exitedFrom = "none" /\ cancelAt = "none"
    /\ sleepInterrupted = FALSE /\ sleptSinceCancel5 = 0

TrigInit ==
    /\ tCls \in Classes
    /\ tInput \in PatternInputs
    /\ tActionOk \in BOOLEAN
    /\ tpc = "new"
    /\ tObj = NoTrigger
    /\ tCands = {}
    /\ tResult = {}
    /\ LinesIdle
    /\ RootIdle
    /\ LoopIdle

\* cls(pattern, action)
Construct ==
    /\ tpc = "new"
    /\ tObj' = NewTrigger(tCls, tInput, tActionOk)
    /\ tpc' = IF tObj'.outcome = "ok" THEN "built" ELSE "failed"
    /\ UNCHANGED <<tCls, tInput, tActionOk, tCands, tResult, lineVars, rootVars, loopVars>>

\* trigger.getFilenameMatches(cands) returns
CallGetFilenameMatches ==
    /\ tpc = "built"
    /\ ~getFilenameMatchesRaises(tObj)
    /\ \E cands \in CandSets :
          /\ tCands' = cands
          /\ tResult' \in getFilenameMatches(tObj, cands)
    /\ tpc' = "matched"
    /\ UNCHANGED <<tCls, tInput, tActionOk, tObj, lineVars, rootVars, loopVars>>

\* trigger.getFilenameMatches(cands) raises
CallGetFilenameMatchesRaises ==
    /\ tpc = "built"
    /\ getFilenameMatchesRaises(tObj)
    /\ \E cands \in CandSets : tCands' = cands
    /\ tpc' = "matchRaised"
    /\ UNCHANGED <<tCls, tInput, tActionOk, tObj, tResult, lineVars, rootVars, loopVars>>

TrigNext == Construct \/ CallGetFilenameMatches \/ CallGetFilenameMatchesRaises

SpecTrig == TrigInit /\ [][TrigNext]_vars

(***************************************************************************)
(* Claims about trigger construction and matching (checked under SpecTrig) *)
(***************************************************************************)
\* the pattern passes the generic checks: a string, non-empty, not all dots, no '/'
PassesGenericChecks(p) ==
    /\ p.type = "str"
    /\ Len(p.chars) > 0
    /\ \E i \in 1..Len(p.chars) : p.chars[i] # "."
    /\ \A i \in 1..Len(p.chars) : p.chars[i] # "/"

HasGlobChar(s) == \E i \in 1..Len(s) : s[i] \in {"*", "?"}

\* C8: a Glob trigger whose pattern passes the generic checks is constructed
\* if the pattern holds a '*' or '?' at any position, and fails validation
\* with ValueError exactly when it holds neither.
C8_GlobAcceptsWildcardAnywhere ==
    (tCls = "TriggerGlob" /\ tpc # "new" /\ tActionOk /\ PassesGenericChecks(tInput))
        => /\ HasGlobChar(tInput.chars) => tpc = "built"
           /\ ~HasGlobChar(tInput.chars) =>
                 (tpc = "failed" /\ tObj.outcome = "ValueError" /\ tObj.stage = "validate")

PatternKinds == {"TriggerRE", "TriggerGlob", "TriggerExactMatch",
                 "TriggerCaseInsensitiveMatch"}

\* the pattern is empty, made only of '.', or holds a '/'
BadBasename(s) ==
    \/ Len(s) = 0
    \/ \A i \in 1..Len(s) : s[i] = "."
    \/ \E i \in 1..Len(s) : s[i] = "/"

\* C9: for every trigger kind, a string pattern that is empty, all dots or
\* holds '/' makes construction fail with ValueError, in validation, that is
\* before the pattern is compiled and before the action is looked at; no
\* trigger results.
C9_BadPatternRejected ==
    (tCls \in PatternKinds /\ tpc # "new" /\ tInput.type = "str" /\ BadBasename(tInput.chars))
        => /\ tpc = "failed"
           /\ tObj.outcome = "ValueError"
           /\ tObj.stage = "validate"

\* C9 witness: a regular expression that would not compile, with '/', and an
\* action that is no Action, was rejected
C9_Witness ==
    /\ tpc = "failed"
    /\ tCls = "TriggerRE"
    /\ tInput = StrPattern(<<"*", "/">>)
    /\ ~tActionOk

\* C10: getFilenameMatches of an Exact trigger returns the candidates equal
\* to the pattern, and of a CaseInsensitive trigger every candidate whose
\* lower-cased form equals the lower-cased pattern: all and only those.
C10_ReturnsAllMatches ==
    /\ (tpc = "matched" /\ tCls = "TriggerExactMatch")
          => tResult = {c \in tCands : c = tInput.chars}
    /\ (tpc = "matched" /\ tCls = "TriggerCaseInsensitiveMatch")
          => tResult = {c \in tCands : Lower(c) = Lower(tInput.chars)}

\* C12: a Regex trigger given an already compiled expression (and an
\* Action) is constructed: validation accepts the expression, it is stored
\* unchanged as the trigger's pattern, and getFilenameMatches then returns
\* the candidates the expression matches.
C12_CompiledRegexAccepted ==
    (tCls = "TriggerRE" /\ tInput.type = "compiled" /\ tActionOk /\ tpc # "new")
        => /\ tpc \in {"built", "matched"}
           /\ tObj.outcome = "ok"
           /\ tObj.pattern = tInput
           /\ tpc = "matched" => tResult = {c \in tCands : ReMatch(tInput.chars, c)}

(***************************************************************************)
(* WatchMan.py                                                             *)
(***************************************************************************)
MaxPoll == 11  \* largest pollTime argument, in ticks

\* the names producers drop into the watched directory
FileNames == {<<"a">>, <<"A">>, <<"b">>}

\* the entries of the watched directory that are no regular files
SubDirs == {<<"a", "a">>}

\* what a producer writes into the file of a given name
FileContents(name) ==
    CASE name = <<"a">> -> <<"x", "\n", "y", "\n">>
      [] name = <<"A">> -> << >>
      [] OTHER          -> <<"x">>

\* a character str.strip() removes
IsSpace(c) == c \in {" ", "\n"}

\* contents.split('\n')
RECURSIVE SplitLines(_)
SplitLines(s) ==
    IF \A i \in 1..Len(s) : s[i] # "\n" THEN <<s>>
    ELSE LET k == CHOOSE i \in 1..Len(s) :
                      s[i] = "\n" /\ \A j \in 1..(i - 1) : s[j] # "\n"
         IN  <<SubSeq(s, 1, k - 1)>> \o SplitLines(SubSeq(s, k + 1, Len(s)))

\* LinesOf without the removal of the trailing empty entry
LinesOf_KeepsTrailing(contents) ==
    IF \E i \in 1..Len(contents) : ~IsSpace(contents[i])
    THEN SplitLines(contents)
    ELSE << >>

\* the line list built from the contents of a matched file
LinesOf(contents) ==
    IF \E i \in 1..Len(contents) : ~IsSpace(contents[i])
    THEN LET data == SplitLines(contents)
         IN  IF data[Len(data)] = << >> THEN SubSeq(data, 1, Len(data) - 1) ELSE data
    ELSE << >>

(***************************************************************************)
(* SpecLines: the contents of one matched file, over every bounded string, *)
(* are turned into the line list handed to the action.                     *)
(***************************************************************************)
MaxContents == 4   \* longest file contents drawn

\* characters file contents are drawn from
ContentChars == {"x", " ", "\n"}

RECURSIVE ContentsUpTo(_)
ContentsUpTo(n) ==
    IF n = 0 THEN {<< >>}
    ELSE LET shorter == ContentsUpTo(n - 1)
         IN  shorter \cup {Append(s, c) : s \in {t \in shorter : Len(t) = n - 1},
                                          c \in ContentChars}

LinesInit ==
    /\ lContents \in ContentsUpTo(MaxContents)
    /\ lData = << >>
    /\ lpc = "read"
    /\ TrigIdle
    /\ RootIdle
    /\ LoopIdle

\* lines 158-164 of run(): data is built from contents
BuildData ==
    /\ lpc = "read"
    /\ lData' = LinesOf(lContents)
    /\ lpc' = "split"
    /\ UNCHANGED <<lContents, trigVars, rootVars, loopVars>>

LinesNext == BuildData

SpecLines == LinesInit /\ [][LinesNext]_vars

\* the lines joined again with a newline between neighbours
RECURSIVE JoinLines(_)
JoinLines(data) ==
    IF Len(data) = 0 THEN << >>
    ELSE IF Len(data) = 1 THEN data[1]
    ELSE data[1] \o <<"\n">> \o JoinLines(Tail(data))

EndsInNewline(s) == Len(s) > 0 /\ s[Len(s)] = "\n"

OnlyWhitespace(s) == \A i \in 1..Len(s) : s[i] \in {" ", "\n"}

\* C11: contents that are empty or only whitespace give the empty list;
\* otherwise the list holds the lines of the contents in order: no entry
\* holds a newline, and joined with newlines the entries give the contents
\* back, less one final newline if there was one (so exactly one trailing
\* empty entry is dropped and blank lines inside are kept).  Contents with
\* and without a single final newline give the same list.
C11_LineListFromContents ==
    lpc = "split" =>
        /\ OnlyWhitespace(lContents) => lData = << >>
        /\ ~OnlyWhitespace(lContents) =>
              /\ \A k \in 1..Len(lData) : ~Contains(lData[k], "\n")
              /\ JoinLines(lData) =
                    IF EndsInNewline(lContents)
                    THEN SubSeq(lContents, 1, Len(lContents) - 1)
                    ELSE lContents
        /\ ~EndsInNewline(lContents) => LinesOf(Append(lContents, "\n")) = lData

\* C11 witness: contents ending in two newlines after a blank line inside
\* were split; one trailing entry went, the blank lines stayed
C11_Witness ==
    /\ lpc = "split"
    /\ lContents = <<"x", "\n", "\n", "\n">>
    /\ lData = <<(<<"x">>), << >>, << >>>>

(***************************************************************************)
(* SpecRoot: WatchMan.__init__ normalises and checks its rootDir argument, *)
(* over every bounded path string, in a small directory tree.              *)
(***************************************************************************)
MaxPath == 4   \* longest rootDir argument drawn

\* characters rootDir arguments are drawn from
PathChars == {"/", ".", "d"}

RECURSIVE PathsUpTo(_)
PathsUpTo(n) ==
    IF n = 0 THEN {<< >>}
    ELSE LET shorter == PathsUpTo(n - 1)
         IN  shorter \cup {Append(s, c) : s \in {t \in shorter : Len(t) = n - 1},
                                          c \in PathChars}

\* the directories that exist, each the list of names leading to it from
\* the root directory: /, /d and /d/d
Dirs == {<< >>, <<(<<"d">>)>>, <<(<<"d">>), (<<"d">>)>>}

\* the working directories the process is started in
WorkingDirs == {<< >>, <<(<<"d">>)>>}

\* the outcome of a path lookup: a directory, or none
NoDir == [ok |-> FALSE, dir |-> << >>]
Found(dir) == [ok |-> TRUE, dir |-> dir]

\* path.split('/')
RECURSIVE PathSplit(_)
PathSplit(path) ==
    IF \A i \in 1..Len(path) : path[i] # "/" THEN <<path>>
    ELSE LET k == CHOOSE i \in 1..Len(path) :
                      path[i] = "/" /\ \A j \in 1..(i - 1) : path[j] # "/"
         IN  <<SubSeq(path, 1, k - 1)>> \o PathSplit(SubSeq(path, k + 1, Len(path)))

\* the kernel's lookup of the components one after the other: an empty
\* component and '.' stay, '..' goes up, a name goes down if it exists
RECURSIVE Walk(_, _)
Walk(cur, comps) ==
    IF ~cur.ok \/ Len(comps) = 0 THEN cur
    ELSE LET c == Head(comps)
             next == CASE c = << >> \/ c = <<".">> -> cur
                       [] c = <<".", ".">> ->
                            IF Len(cur.dir) = 0 THEN cur
                            ELSE Found(SubSeq(cur.dir, 1, Len(cur.dir) - 1))
                       [] OTHER ->
                            IF Append(cur.dir, c) \in Dirs
                            THEN Found(Append(cur.dir, c)) ELSE NoDir
         IN  Walk(next, Tail(comps))

\* the directory a path names for a process whose working directory is cwd
Resolve(path, cwd) ==
    IF Len(path) = 0 THEN NoDir
    ELSE Walk(Found(IF path[1] = "/" THEN << >> ELSE cwd), PathSplit(path))

\* os.path.isdir(path)
isdir(path, cwd) == Resolve(path, cwd).ok

\* lines 58-62 of __init__: one trailing '/' goes, the empty string becomes '.'
WatchMan_rootDir(rootDir) ==
    LET stripped == IF Len(rootDir) > 0 /\ rootDir[Len(rootDir)] = "/"
                    THEN SubSeq(rootDir, 1, Len(rootDir) - 1)
                    ELSE rootDir
    IN  IF Len(stripped) = 0 THEN <<".">> ELSE stripped

RootInit ==
    /\ rArg \in PathsUpTo(MaxPath)
    /\ rCwd \in WorkingDirs
    /\ rRootDir = << >>
    /\ rpc = "new"
    /\ TrigIdle
    /\ LinesIdle
    /\ LoopIdle

\* WatchMan(rootDir, triggers): ValueError unless the normalised path is a
\* directory, else self.rootDir is the normalised path
NewWatchMan ==
    /\ rpc = "new"
    /\ IF isdir(WatchMan_rootDir(rArg), rCwd)
       THEN rpc' = "built" /\ rRootDir' = WatchMan_rootDir(rArg)
       ELSE rpc' = "failed" /\ UNCHANGED rRootDir
    /\ UNCHANGED <<rArg, rCwd, trigVars, lineVars, loopVars>>

RootNext == NewWatchMan

SpecRoot == RootInit /\ [][RootNext]_vars

\* C20: a rootDir argument that names an existing directory is accepted
\* and the directory run() lists, self.rootDir, is that same directory;
\* the empty string is accepted and stands for the working directory; and
\* '/' stands for the root directory, not for the working directory.
C20_ScansTheNamedDirectory ==
    rpc # "new" =>
        /\ isdir(rArg, rCwd) =>
              /\ rpc = "built"
              /\ Resolve(rRootDir, rCwd) = Resolve(rArg, rCwd)
        /\ rArg = << >> => (rpc = "built" /\ Resolve(rRootDir, rCwd) = Found(rCwd))
        /\ rArg = <<"/">> => (rpc = "built" /\ Resolve(rRootDir, rCwd) = Found(<< >>))

\* the trigger lists a WatchMan is created with
TriggerLists ==
    { <<NewTrigger("TriggerRE", StrPattern(<<"^", "a">>), TRUE),
        NewTrigger("TriggerRE", StrPattern(<<"^", "a">>), TRUE)>>,
      <<NewTrigger("TriggerCaseInsensitiveMatch", StrPattern(<<"A">>), TRUE),
        NewTrigger("TriggerGlob", StrPattern(<<"*", "a">>), TRUE)>>,
      <<NewTrigger("Trigger", StrPattern(<<"a">>), TRUE),
        NewTrigger("TriggerExactMatch", StrPattern(<<"a">>), TRUE)>> }

PollArgs == {1, MaxPoll}
StopArgs == {2}

\* self.pollTime after __init__: rounded up to the check interval
WatchMan_pollTime(pollArg, stopArg) ==
    IF pollArg < stopArg THEN stopArg ELSE pollArg

NoRemovals == [f \in FileNames \cup SubDirs |-> 0]

\* WatchMan.__init__ has returned; run() has not been entered
Init ==
    /\ TrigIdle
    /\ LinesIdle
    /\ RootIdle
    /\ pyMajor \in {2, 3}
    /\ triggers \in TriggerLists
    /\ \A i \in 1..Len(triggers) : triggers[i].outcome = "ok"
    /\ canMatchMultiple \in BOOLEAN
    /\ \E p \in PollArgs, c \in StopArgs :
          /\ stopCheckInterval = c
          /\ pollTime = WatchMan_pollTime(p, c)
    /\ pc = "constructed" /\ keepGoing = TRUE /\ sigHandler = "default"
    /\ directoryContents = {} /\ remainingContents = {}
    /\ matchedThisIteration = {} /\ ti = 0 /\ matches = {}
    /\ namesAndData = << >> /\ allMatches = {} /\ match = << >>
    /\ timeSlept = 0
    /\ dirExists = TRUE /\ dirFiles = {}
    /\ offered = {} /\ dispatched = {} /\ readFailed = {}
    /\ removeTried = NoRemovals /\ actionRaised = {} /\ scan = "none"
    /\ removeFailed = {} /\ carried = {}
    /\ exitedFrom = "none" /\ cancelAt = "none"
    /\ sleepInterrupted = FALSE /\ sleptSinceCancel5 = 0

Ended == pc \in {"stopped", "killed", "crashed"}

\* traceback.format_exc(sys.exc_info()) in an except block: the exc_info
\* tuple lands in the limit parameter.  Python 2 orders an int before a
\* tuple and formats the whole traceback; Python 3 raises TypeError on the
\* comparison, and that exception leaves the except block.
format_exc_raises == pyMajor = 3

\* an exception leaves run()
Crash ==
    /\ pc' = "crashed"
    /\ exitedFrom' = pc

\* run(): the signal handlers are installed
Start ==
    /\ pc = "constructed"
    /\ sigHandler' = "die"
    /\ pc' = "while"
    /\ UNCHANGED <<unitVars, confVars, envVars, histVars, keepGoing,
                   directoryContents, remainingContents, matchedThisIteration,
                   ti, matches, namesAndData, allMatches, match, timeSlept>>

\* while self.keepGoing is True: enter the next cycle
LoopTest ==
    /\ pc = "while"
    /\ keepGoing
    /\ pc' = "listdir"
    /\ UNCHANGED <<unitVars, confVars, envVars, histVars, keepGoing, sigHandler,
                   directoryContents, remainingContents, matchedThisIteration,
                   ti, matches, namesAndData, allMatches, match, timeSlept>>

\* the loop is left: self.die() finds keepGoing False, sys.exit(0)
Exit ==
    /\ pc = "while"
    /\ ~keepGoing
    /\ pc' = "stopped"
    /\ exitedFrom' = pc
    /\ UNCHANGED <<unitVars, confVars, envVars, keepGoing, sigHandler,
                   directoryContents, remainingContents, matchedThisIteration,
                   ti, matches, namesAndData, allMatches, match, timeSlept,
                   offered, dispatched, readFailed, removeTried, actionRaised,
                   scan, cancelAt, sleepInterrupted, sleptSinceCancel5>>
    /\ UNCHANGED <<removeFailed, carried>>

\* os.listdir(self.rootDir)
os_listdir == dirFiles \cup SubDirs

\* the listing without the os.path.isfile filter
RegularFilesListed_NoIsFile == os_listdir

\* {x for x in os.listdir(self.rootDir) if x and os.path.isfile(...)}
RegularFilesListed == {x \in os_listdir : x # << >> /\ x \in dirFiles}

\* os.listdir succeeds: the regular files become the cycle's candidate set
ListDir ==
    /\ pc = "listdir"
    /\ dirExists
    /\ directoryContents' = RegularFilesListed
    /\ remainingContents' = RegularFilesListed
    /\ matchedThisIteration' = IF canMatchMultiple THEN {} ELSE matchedThisIteration
    /\ ti' = 0
    /\ pc' = "for"
    /\ offered' = {} /\ dispatched' = {} /\ readFailed' = {}
    /\ removeTried' = NoRemovals /\ actionRaised' = {} /\ scan' = "ok"
    /\ UNCHANGED <<unitVars, confVars, envVars, keepGoing, sigHandler, matches,
                   namesAndData, allMatches, match, timeSlept,
                   exitedFrom, cancelAt, sleepInterrupted, sleptSinceCancel5>>
    /\ removeFailed' = {} /\ carried' = removeFailed \cap dirFiles

\* os.listdir raises: the error is reported, then time.sleep(pollTime / 5)
ListDirFails ==
    /\ pc = "listdir"
    /\ ~dirExists
    /\ offered' = {} /\ dispatched' = {} /\ readFailed' = {}
    /\ removeTried' = NoRemovals /\ actionRaised' = {} /\ scan' = "failed"
    /\ sleepInterrupted' = FALSE
    /\ IF format_exc_raises THEN Crash
       ELSE pc' = "fallbackSleep" /\ UNCHANGED exitedFrom
    /\ UNCHANGED <<unitVars, confVars, envVars, keepGoing, sigHandler,
                   directoryContents, remainingContents, matchedThisIteration,
                   ti, matches, namesAndData, allMatches, match, timeSlept,
                   cancelAt, sleptSinceCancel5>>
    /\ removeFailed' = {} /\ carried' = {}

\* FallbackReturn that lists again at once instead of continuing the loop
FallbackReturn_ListsAgain ==
    /\ pc = "fallbackSleep"
    /\ pc' = "listdir"
    /\ sleptSinceCancel5' =
          IF ~keepGoing /\ ~sleepInterrupted
          THEN sleptSinceCancel5 + pollTime ELSE sleptSinceCancel5
    /\ UNCHANGED <<unitVars, confVars, envVars, keepGoing, sigHandler,
                   directoryContents, remainingContents, matchedThisIteration,
                   ti, matches, namesAndData, allMatches, match, timeSlept,
                   offered, dispatched, readFailed, removeTried, actionRaised,
                   removeFailed, carried,
                   scan, exitedFrom, cancelAt, sleepInterrupted>>

\* time.sleep(pollTime / 5) returns; continue
FallbackReturn ==
    /\ pc = "fallbackSleep"
    /\ pc' = "while"
    /\ sleptSinceCancel5' =
          IF ~keepGoing /\ ~sleepInterrupted
          THEN sleptSinceCancel5 + pollTime ELSE sleptSinceCancel5
    /\ UNCHANGED <<unitVars, confVars, envVars, keepGoing, sigHandler,
                   directoryContents, remainingContents, matchedThisIteration,
                   ti, matches, namesAndData, allMatches, match, timeSlept,
                   offered, dispatched, readFailed, removeTried, actionRaised,
                   scan, exitedFrom, cancelAt, sleepInterrupted>>
    /\ UNCHANGED <<removeFailed, carried>>

\* for trigger in self.triggers: the next trigger
ForTrigger ==
    /\ pc = "for"
    /\ ti < Len(triggers)
    /\ ti' = ti + 1
    /\ pc' = "match"
    /\ UNCHANGED <<unitVars, confVars, envVars, histVars, keepGoing, sigHandler,
                   directoryContents, remainingContents, matchedThisIteration,
                   matches, namesAndData, allMatches, match, timeSlept>>

\* the for loop is exhausted: deferred removal in multi-match mode, else sleep
ForEnd ==
    /\ pc = "for"
    /\ ti >= Len(triggers)
    /\ IF canMatchMultiple
       THEN pc' = "cleanup" /\ matches' = matchedThisIteration /\ UNCHANGED timeSlept
       ELSE pc' = "sleepTest" /\ timeSlept' = 0 /\ UNCHANGED matches
    /\ UNCHANGED <<unitVars, confVars, envVars, histVars, keepGoing, sigHandler,
                   directoryContents, remainingContents, matchedThisIteration,
                   ti, namesAndData, allMatches, match>>

\* trigger.getFilenameMatches(remainingContents) returns; the matches are
\* claimed (single-match) or recorded for the deferred removal (multi-match)
Match ==
    /\ pc = "match"
    /\ ~getFilenameMatchesRaises(triggers[ti])
    /\ \E m \in getFilenameMatches(triggers[ti], remainingContents) :
          /\ matches' = m
          /\ IF ~canMatchMultiple
             THEN /\ remainingContents' = remainingContents \ m
                  /\ UNCHANGED matchedThisIteration
             ELSE /\ matchedThisIteration' = matchedThisIteration \cup m
                  /\ UNCHANGED remainingContents
    /\ namesAndData' = << >>
    /\ offered' = offered \cup {<<ti, n>> : n \in remainingContents}
    /\ pc' = "read"
    /\ UNCHANGED <<unitVars, confVars, envVars, keepGoing, sigHandler,
                   directoryContents, ti, allMatches, match, timeSlept,
                   dispatched, readFailed, removeTried, actionRaised, scan,
                   exitedFrom, cancelAt, sleepInterrupted, sleptSinceCancel5>>
    /\ UNCHANGED <<removeFailed, carried>>

\* trigger.getFilenameMatches raises: reported, continue with the next trigger
MatchRaises ==
    /\ pc = "match"
    /\ getFilenameMatchesRaises(triggers[ti])
    /\ offered' = offered \cup {<<ti, n>> : n \in remainingContents}
    /\ IF format_exc_raises THEN Crash
       ELSE pc' = "for" /\ UNCHANGED exitedFrom
    /\ UNCHANGED <<unitVars, confVars, envVars, keepGoing, sigHandler,
                   directoryContents, remainingContents, matchedThisIteration,
                   ti, matches, namesAndData, allMatches, match, timeSlept,
                   dispatched, readFailed, removeTried, actionRaised, scan,
                   cancelAt, sleepInterrupted, sleptSinceCancel5>>
    /\ UNCHANGED <<removeFailed, carried>>

\* for match in matches: the file is read and split into lines
ReadFile ==
    /\ pc = "read"
    /\ \E f \in matches :
          /\ dirExists /\ f \in dirFiles
          /\ matches' = matches \ {f}
          /\ namesAndData' = (f :> LinesOf(FileContents(f))) @@ namesAndData
    /\ UNCHANGED <<unitVars, confVars, envVars, histVars, pc, keepGoing, sigHandler,
                   directoryContents, remainingContents, matchedThisIteration,
                   ti, allMatches, match, timeSlept>>

\* for match in matches: open/read raises (file gone or unreadable);
\* reported, continue with the next match
ReadFileFails ==
    /\ pc = "read"
    /\ \E f \in matches :
          /\ matches' = matches \ {f}
          /\ readFailed' = readFailed \cup {<<ti, f>>}
    /\ IF format_exc_raises THEN Crash
       ELSE UNCHANGED <<pc, exitedFrom>>
    /\ UNCHANGED <<unitVars, confVars, envVars, keepGoing, sigHandler,
                   directoryContents, remainingContents, matchedThisIteration,
                   ti, namesAndData, allMatches, match, timeSlept,
                   offered, dispatched, removeTried, actionRaised, scan,
                   cancelAt, sleepInterrupted, sleptSinceCancel5>>
    /\ UNCHANGED <<removeFailed, carried>>

\* every match was read: allMatches = namesAndData.keys()
ReadDone ==
    /\ pc = "read"
    /\ matches = {}
    /\ allMatches' = DOMAIN namesAndData
    /\ pc' = "dispatch"
    /\ UNCHANGED <<unitVars, confVars, envVars, histVars, keepGoing, sigHandler,
                   directoryContents, remainingContents, matchedThisIteration,
                   ti, matches, namesAndData, match, timeSlept>>

\* trigger.runAction(match, data) returns
RunAction ==
    /\ pc = "dispatch"
    /\ \E f \in allMatches :
          /\ allMatches' = allMatches \ {f}
          /\ dispatched' = dispatched \cup {<<ti, f, namesAndData[f]>>}
          /\ IF canMatchMultiple
             THEN UNCHANGED <<pc, match>>
             ELSE pc' = "remove" /\ match' = f
    /\ UNCHANGED <<unitVars, confVars, envVars, keepGoing, sigHandler,
                   directoryContents, remainingContents, matchedThisIteration,
                   ti, matches, namesAndData, timeSlept,
                   offered, readFailed, removeTried, actionRaised, scan,
                   exitedFrom, cancelAt, sleepInterrupted, sleptSinceCancel5>>
    /\ UNCHANGED <<removeFailed, carried>>

\* trigger.runAction(match, data) raises: reported, no retry
RunActionRaises ==
    /\ pc = "dispatch"
    /\ \E f \in allMatches :
          /\ allMatches' = allMatches \ {f}
          /\ dispatched' = dispatched \cup {<<ti, f, namesAndData[f]>>}
          /\ actionRaised' = actionRaised \cup {f}
          /\ IF format_exc_raises THEN Crash /\ UNCHANGED match
             ELSE /\ UNCHANGED exitedFrom
                  /\ IF canMatchMultiple
                     THEN UNCHANGED <<pc, match>>
                     ELSE pc' = "remove" /\ match' = f
    /\ UNCHANGED <<unitVars, confVars, envVars, keepGoing, sigHandler,
                   directoryContents, remainingContents, matchedThisIteration,
                   ti, matches, namesAndData, timeSlept,
                   offered, readFailed, removeTried, scan,
                   cancelAt, sleepInterrupted, sleptSinceCancel5>>
    /\ UNCHANGED <<removeFailed, carried>>

\* single-match mode: os.remove(fullPath) succeeds
Remove ==
    /\ pc = "remove"
    /\ dirExists /\ match \in dirFiles
    /\ dirFiles' = dirFiles \ {match}
    /\ removeTried' = [removeTried EXCEPT ![match] = @ + 1]
    /\ pc' = "dispatch"
    /\ UNCHANGED <<unitVars, confVars, dirExists, keepGoing, sigHandler,
                   directoryContents, remainingContents, matchedThisIteration,
                   ti, matches, namesAndData, allMatches, match, timeSlept,
                   offered, dispatched, readFailed, actionRaised, scan,
                   exitedFrom, cancelAt, sleepInterrupted, sleptSinceCancel5>>
    /\ UNCHANGED <<removeFailed, carried>>

\* single-match mode: os.remove(fullPath) raises; reported
RemoveFails ==
    /\ pc = "remove"
    /\ removeTried' = [removeTried EXCEPT ![match] = @ + 1]
    /\ pc' = "dispatch"
    /\ UNCHANGED <<unitVars, confVars, envVars, keepGoing, sigHandler,
                   directoryContents, remainingContents, matchedThisIteration,
                   ti, matches, namesAndData, allMatches, match, timeSlept,
                   offered, dispatched, readFailed, actionRaised, scan,
                   exitedFrom, cancelAt, sleepInterrupted, sleptSinceCancel5>>
    /\ removeFailed' = removeFailed \cup {match} /\ UNCHANGED carried

\* every read match of this trigger was dispatched
DispatchDone ==
    /\ pc = "dispatch"
    /\ allMatches = {}
    /\ pc' = "for"
    /\ UNCHANGED <<unitVars, confVars, envVars, histVars, keepGoing, sigHandler,
                   directoryContents, remainingContents, matchedThisIteration,
                   ti, matches, namesAndData, allMatches, match, timeSlept>>

\* multi-match mode: os.remove of one file of matchedThisIteration succeeds
CleanupRemove ==
    /\ pc = "cleanup"
    /\ \E f \in matches :
          /\ dirExists /\ f \in dirFiles
          /\ matches' = matches \ {f}
          /\ dirFiles' = dirFiles \ {f}
          /\ removeTried' = [removeTried EXCEPT ![f] = @ + 1]
    /\ UNCHANGED <<unitVars, confVars, dirExists, pc, keepGoing, sigHandler,
                   directoryContents, remainingContents, matchedThisIteration,
                   ti, namesAndData, allMatches, match, timeSlept,
                   offered, dispatched, readFailed, actionRaised, scan,
                   exitedFrom, cancelAt, sleepInterrupted, sleptSinceCancel5>>
    /\ UNCHANGED <<removeFailed, carried>>

\* multi-match mode: os.remove of one file of matchedThisIteration raises
CleanupRemoveFails ==
    /\ pc = "cleanup"
    /\ \E f \in matches :
          /\ matches' = matches \ {f}
          /\ removeTried' = [removeTried EXCEPT ![f] = @ + 1]
          /\ removeFailed' = removeFailed \cup {f}
    /\ UNCHANGED carried
    /\ UNCHANGED <<unitVars, confVars, envVars, pc, keepGoing, sigHandler,
                   directoryContents, remainingContents, matchedThisIteration,
                   ti, namesAndData, allMatches, match, timeSlept,
                   offered, dispatched, readFailed, actionRaised, scan,
                   exitedFrom, cancelAt, sleepInterrupted, sleptSinceCancel5>>

\* multi-match mode: the deferred removal is finished; timeSlept = 0.0
CleanupDone ==
    /\ pc = "cleanup"
    /\ matches = {}
    /\ pc' = "sleepTest"
    /\ timeSlept' = 0
    /\ UNCHANGED <<unitVars, confVars, envVars, histVars, keepGoing, sigHandler,
                   directoryContents, remainingContents, matchedThisIteration,
                   ti, matches, namesAndData, allMatches, match>>

\* while timeSlept < self.pollTime: time.sleep(self.stopCheckInterval) begins
SleepBegin ==
    /\ pc = "sleepTest"
    /\ timeSlept < pollTime
    /\ pc' = "sleeping"
    /\ sleepInterrupted' = FALSE
    /\ UNCHANGED <<unitVars, confVars, envVars, keepGoing, sigHandler,
                   directoryContents, remainingContents, matchedThisIteration,
                   ti, matches, namesAndData, allMatches, match, timeSlept,
                   offered, dispatched, readFailed, removeTried, actionRaised,
                   scan, exitedFrom, cancelAt, sleptSinceCancel5>>
    /\ UNCHANGED <<removeFailed, carried>>

\* while timeSlept < self.pollTime: the poll time has been slept
SleepOver ==
    /\ pc = "sleepTest"
    /\ timeSlept >= pollTime
    /\ pc' = "while"
    /\ UNCHANGED <<unitVars, confVars, envVars, histVars, keepGoing, sigHandler,
                   directoryContents, remainingContents, matchedThisIteration,
                   ti, matches, namesAndData, allMatches, match, timeSlept>>

\* SleepReturn without the test of keepGoing after the sub-sleep
SleepReturn_NoBreak ==
    /\ pc = "sleeping"
    /\ timeSlept' = timeSlept + stopCheckInterval
    /\ pc' = "sleepTest"
    /\ sleptSinceCancel5' =
          IF ~keepGoing /\ ~sleepInterrupted
          THEN sleptSinceCancel5 + 5 * stopCheckInterval ELSE sleptSinceCancel5
    /\ UNCHANGED <<unitVars, confVars, envVars, keepGoing, sigHandler,
                   directoryContents, remainingContents, matchedThisIteration,
                   ti, matches, namesAndData, allMatches, match,
                   offered, dispatched, readFailed, removeTried, actionRaised,
                   scan, exitedFrom, cancelAt, sleepInterrupted>>
    /\ UNCHANGED <<removeFailed, carried>>

\* time.sleep returns; timeSlept += stopCheckInterval; break if keepGoing is False
SleepReturn ==
    /\ pc = "sleeping"
    /\ timeSlept' = timeSlept + stopCheckInterval
    /\ pc' = IF ~keepGoing THEN "while" ELSE "sleepTest"
    /\ sleptSinceCancel5' =
          IF ~keepGoing /\ ~sleepInterrupted
          THEN sleptSinceCancel5 + 5 * stopCheckInterval ELSE sleptSinceCancel5
    /\ UNCHANGED <<unitVars, confVars, envVars, keepGoing, sigHandler,
                   directoryContents, remainingContents, matchedThisIteration,
                   ti, matches, namesAndData, allMatches, match,
                   offered, dispatched, readFailed, removeTried, actionRaised,
                   scan, exitedFrom, cancelAt, sleepInterrupted>>
    /\ UNCHANGED <<removeFailed, carried>>

\* die that also abandons the cycle in progress
die_AbandonsCycle ==
    /\ ~Ended
    /\ sigHandler = "die"
    /\ keepGoing' = FALSE
    /\ sigHandler' = "default"
    /\ cancelAt' = pc
    /\ pc' = IF pc \in {"for", "match", "read", "dispatch", "remove", "cleanup"}
             THEN "while" ELSE pc
    /\ IF pc \in {"sleeping", "fallbackSleep"}
       THEN sleepInterrupted' \in (IF pyMajor = 2 THEN {TRUE} ELSE BOOLEAN)
       ELSE UNCHANGED sleepInterrupted
    /\ UNCHANGED <<unitVars, confVars, envVars,
                   directoryContents, remainingContents, matchedThisIteration,
                   ti, matches, namesAndData, allMatches, match, timeSlept,
                   offered, dispatched, readFailed, removeTried, actionRaised,
                   scan, exitedFrom, sleptSinceCancel5>>
    /\ UNCHANGED <<removeFailed, carried>>

\* SIGTERM or SIGINT while die is the handler: keepGoing is cleared and the
\* default dispositions are restored.  A time.sleep in progress is cut short
\* on Python 2 (EINTR ends the sleep); on Python 3 it is cut short or resumed
\* for its remainder, depending on the minor version.
die ==
    /\ ~Ended
    /\ sigHandler = "die"
    /\ keepGoing' = FALSE
    /\ sigHandler' = "default"
    /\ cancelAt' = pc
    /\ IF pc \in {"sleeping", "fallbackSleep"}
       THEN sleepInterrupted' \in (IF pyMajor = 2 THEN {TRUE} ELSE BOOLEAN)
       ELSE UNCHANGED sleepInterrupted
    /\ UNCHANGED <<unitVars, confVars, envVars, pc,
                   directoryContents, remainingContents, matchedThisIteration,
                   ti, matches, namesAndData, allMatches, match, timeSlept,
                   offered, dispatched, readFailed, removeTried, actionRaised,
                   scan, exitedFrom, sleptSinceCancel5>>
    /\ UNCHANGED <<removeFailed, carried>>

\* SIGTERM or SIGINT under the default disposition (before run() installs
\* die, or after die restored SIG_DFL): the process is terminated at once
Killed ==
    /\ ~Ended
    /\ sigHandler = "default"
    /\ pc' = "killed"
    /\ exitedFrom' = pc
    /\ UNCHANGED <<unitVars, confVars, envVars, keepGoing, sigHandler,
                   directoryContents, remainingContents, matchedThisIteration,
                   ti, matches, namesAndData, allMatches, match, timeSlept,
                   offered, dispatched, readFailed, removeTried, actionRaised,
                   scan, cancelAt, sleepInterrupted, sleptSinceCancel5>>
    /\ UNCHANGED <<removeFailed, carried>>

\* a producer drops a file into the watched directory
Produce ==
    /\ ~Ended
    /\ dirExists
    /\ \E f \in FileNames \ dirFiles : dirFiles' = dirFiles \cup {f}
    /\ UNCHANGED <<unitVars, confVars, runVars, histVars, dirExists>>

\* the watched directory is deleted with its contents
DirRemove ==
    /\ ~Ended
    /\ dirExists
    /\ dirExists' = FALSE
    /\ dirFiles' = {}
    /\ UNCHANGED <<unitVars, confVars, runVars, histVars>>

\* the watched directory is created again
DirRestore ==
    /\ ~Ended
    /\ ~dirExists
    /\ dirExists' = TRUE
    /\ UNCHANGED <<unitVars, confVars, runVars, histVars, dirFiles>>

Next ==
    \/ Start \/ LoopTest \/ Exit
    \/ ListDir \/ ListDirFails \/ FallbackReturn
    \/ ForTrigger \/ ForEnd
    \/ Match \/ MatchRaises
    \/ ReadFile \/ ReadFileFails \/ ReadDone
    \/ RunAction \/ RunActionRaises \/ Remove \/ RemoveFails \/ DispatchDone
    \/ CleanupRemove \/ CleanupRemoveFails \/ CleanupDone
    \/ SleepBegin \/ SleepOver \/ SleepReturn
    \/ die \/ Killed
    \/ Produce \/ DirRemove \/ DirRestore

Spec == Init /\ [][Next]_vars

\* a step of the WatchMan process itself
RunStep ==
    \/ Start \/ LoopTest \/ Exit
    \/ ListDir \/ ListDirFails \/ FallbackReturn
    \/ ForTrigger \/ ForEnd
    \/ Match \/ MatchRaises
    \/ ReadFile \/ ReadFileFails \/ ReadDone
    \/ RunAction \/ RunActionRaises \/ Remove \/ RemoveFails \/ DispatchDone
    \/ CleanupRemove \/ CleanupRemoveFails \/ CleanupDone
    \/ SleepBegin \/ SleepOver \/ SleepReturn

\* a WatchMan whose poll time is one check interval
InitLive == Init /\ pollTime = stopCheckInterval

\* the process is scheduled: while it has a step to take (every system
\* call, sleep and action call returns or raises) it eventually takes one;
\* nothing is assumed of producers, signals or the directory
SpecLive == InitLive /\ [][Next]_vars /\ WF_vars(RunStep)

(***************************************************************************)
(* Claims about the loop (checked under Spec)                              *)
(***************************************************************************)
\* the trigger's pattern matches the name, by the rule of its kind
PatternMatchesName(trigger, name) ==
    CASE trigger.cls = "TriggerRE"   -> ReMatch(trigger.pattern.chars, name)
      [] trigger.cls = "TriggerGlob" -> GlobMatch(trigger.pattern.chars, name)
      [] trigger.cls = "TriggerExactMatch" -> name = trigger.pattern.chars
      [] trigger.cls = "TriggerCaseInsensitiveMatch" ->
             Lower(name) = Lower(trigger.pattern.chars)
      [] OTHER -> FALSE

MatchingTriggers(f) ==
    {i \in 1..Len(triggers) : PatternMatchesName(triggers[i], f)}

FirstMatching(f) ==
    CHOOSE i \in MatchingTriggers(f) : \A j \in MatchingTriggers(f) : i <= j

\* positions inside a scan-and-dispatch cycle
CyclePcs == {"listdir", "for", "match", "read", "dispatch", "remove", "cleanup"}

\* positions of the sleep between scans
SleepPcs == {"sleepTest", "sleeping", "fallbackSleep"}

\* the latest cycle listed the directory and ran to its end
CycleOver ==
    /\ scan = "ok"
    /\ pc \in {"sleepTest", "sleeping", "while", "stopped"}

DispatchedFor(f) == {d \in dispatched : d[2] = f}

\* C1: single-match mode: a file that two or more triggers match is
\* dispatched by the first of them in declaration order only, no later
\* trigger is offered it, and, once the cycle is over, its removal was
\* attempted exactly once (a file the first trigger could not read is left
\* out of the count).
C1_SingleMatchFirstWins ==
    ~canMatchMultiple =>
        \A f \in directoryContents :
            Cardinality(MatchingTriggers(f)) >= 2 =>
                /\ \A d \in DispatchedFor(f) : d[1] = FirstMatching(f)
                /\ \A o \in offered : o[2] = f => o[1] <= FirstMatching(f)
                /\ (CycleOver /\ <<FirstMatching(f), f>> \notin readFailed)
                      => removeTried[f] = 1

\* C2: multi-match mode: every trigger is given the full listing; once the
\* cycle is over every trigger whose pattern matches a file it could read
\* was dispatched for it, all with the same lines; removal of a matched file
\* is attempted once, and never before the last trigger is done.
C2_MultiMatchAllDispatched ==
    canMatchMultiple =>
        /\ \A o \in offered : \A f \in directoryContents : <<o[1], f>> \in offered
        /\ CycleOver =>
              \A i \in 1..Len(triggers) : \A f \in directoryContents :
                  (PatternMatchesName(triggers[i], f) /\ <<i, f>> \notin readFailed)
                      => \E d \in DispatchedFor(f) : d[1] = i
        /\ \A d1, d2 \in dispatched : d1[2] = d2[2] => d1[3] = d2[3]
        /\ pc \in {"for", "match", "read", "dispatch"} => removeTried = NoRemovals
        /\ CycleOver => \A f \in matchedThisIteration : removeTried[f] = 1
        /\ \A f \in FileNames : removeTried[f] <= 1

\* C3: an action that raises does not end the loop: no exception leaves
\* run, the file is not queued again for the trigger, and it is removed:
\* next thing in single-match mode, by the end of the cycle in multi-match
\* mode.
C3_ActionFailureContained ==
    /\ ~(pc = "crashed" /\ exitedFrom = "dispatch")
    /\ pc = "dispatch" => \A d \in dispatched : d[1] = ti => d[2] \notin allMatches
    /\ (~canMatchMultiple /\ ~Ended) =>
          \A f \in actionRaised : removeTried[f] = 1 \/ (pc = "remove" /\ match = f)
    /\ (canMatchMultiple /\ CycleOver) =>
          \A f \in actionRaised : removeTried[f] = 1

\* C4: in both modes a matched file that could not be read, and so was not
\* dispatched, is not removed in that cycle.
C4_UnreadFileKept ==
    \A r \in readFailed :
        DispatchedFor(r[2]) = {} => removeTried[r[2]] = 0

\* C5 as stated: however many termination signals arrive, the process never
\* ends inside a cycle that has listed the directory.
C5_NoSignalEndsCycle ==
    pc = "killed" => exitedFrom \notin (CyclePcs \ {"listdir"})

\* C5 amended: the first termination signal never interrupts a cycle: it
\* only clears keepGoing and restores the default dispositions, the loop is
\* left only at its while test, and a cycle is left only at its end (or by
\* a failed listing, an exception, or a signal under the default
\* disposition, which ends the process at once).
C5_FirstSignalKeepsCycle ==
    [][ /\ (sigHandler = "die" /\ sigHandler' = "default") =>
              /\ pc' = pc /\ ~keepGoing'
              /\ <<directoryContents, remainingContents, matchedThisIteration, ti,
                   matches, namesAndData, allMatches, match, dirFiles>>'
                   = <<directoryContents, remainingContents, matchedThisIteration, ti,
                       matches, namesAndData, allMatches, match, dirFiles>>
        /\ pc' = "stopped" => pc = "while"
        /\ pc' = "killed" => sigHandler = "default"
        /\ (pc \in CyclePcs /\ pc' \notin CyclePcs) =>
              \/ pc' = "sleepTest" /\ pc \in {"for", "cleanup"}
              \/ pc' = "fallbackSleep" /\ pc = "listdir"
              \/ pc' = "crashed"
              \/ pc' = "killed"
      ]_vars

\* C5 witness: the signal arrived as a cycle began; the cycle still
\* dispatched and removed a file, and then the loop stopped
C5_Witness ==
    /\ pc = "stopped"
    /\ cancelAt = "listdir"
    /\ dispatched # {}
    /\ \E f \in FileNames : removeTried[f] = 1 /\ f \notin dirFiles

C7_ListingFailureNotFatal ==
    /\ ~(pc = "crashed" /\ exitedFrom = "listdir")
    /\ scan = "failed" =>
          /\ offered = {} /\ dispatched = {} /\ removeTried = NoRemovals
          /\ pc \in {"fallbackSleep", "while", "listdir", "stopped", "killed", "crashed"}

\* the names the trigger of index i was handed in this cycle
OfferedTo(i) == {o[2] : o \in {x \in offered : x[1] = i}}

\* the trigger of index i has been through its matching step in this cycle
Evaluated(i) ==
    \/ ti > i
    \/ ti = i /\ pc # "match" /\ ~(pc = "killed" /\ exitedFrom = "match")

\* C13: a trigger whose matching step raises does not end the loop: no
\* exception leaves run; the trigger claims no file, reads and dispatches
\* nothing and removes nothing in that cycle; and the next trigger is handed
\* the same candidate set the failing one was handed.
C13_MatchFailureSkipsTrigger ==
    /\ ~(pc = "crashed" /\ exitedFrom = "match")
    /\ \A i \in 1..Len(triggers) :
          getFilenameMatchesRaises(triggers[i]) =>
              /\ \A d \in dispatched : d[1] # i
              /\ \A r \in readFailed : r[1] # i
              /\ pc \in {"read", "dispatch", "remove"} => ti # i
              /\ (i < Len(triggers) /\ Evaluated(i + 1)) =>
                    OfferedTo(i + 1) = OfferedTo(i)

\* C14: a failed removal is not fatal in either mode: no exception leaves
\* run from a removal; the trigger goes on to dispatch every other file it
\* read and the later triggers are evaluated; in multi-match mode the
\* removal of every other matched file is still attempted; and a file whose
\* removal failed and that is listed by the next scan is dispatched again in
\* the cycle of that scan (cycles with a failed read left aside).
C14_RemovalFailureNotFatal ==
    /\ ~(pc = "crashed" /\ exitedFrom \in {"remove", "cleanup"})
    /\ (pc = "for" /\ ti >= 1 /\ removeFailed # {}
            /\ ~getFilenameMatchesRaises(triggers[ti])) =>
          \A f \in DOMAIN namesAndData : \E d \in dispatched : d[1] = ti /\ d[2] = f
    /\ (CycleOver /\ removeFailed # {}) =>
          /\ ti = Len(triggers)
          /\ canMatchMultiple => \A f \in matchedThisIteration : removeTried[f] = 1
    /\ (CycleOver /\ readFailed = {}) =>
          \A f \in carried : DispatchedFor(f) # {}

\* C15: with no cancellation, when the sleep between two scans is over the
\* sub-sleeps of stopCheckInterval add up to exactly the configured
\* pollTime (which is never below stopCheckInterval).
C15_SleepTotalIsPollTime ==
    (pc = "sleepTest" /\ keepGoing /\ timeSlept >= pollTime) =>
        /\ pollTime >= stopCheckInterval
        /\ timeSlept = pollTime

\* C17: once cancellation is requested no new scan is started: from then
\* on the loop never moves to the listing step (a request that arrives in
\* a cycle, its listing step included, leaves that cycle the last one; a
\* request that arrives in the poll sleep or in the fallback sleep is
\* followed by the exit), and the only listing made after the request is
\* the one of the cycle the request arrived in.
C17_NoScanAfterCancel ==
    [][ ~keepGoing =>
          /\ pc' = "listdir" => pc = "listdir"
          /\ (pc = "listdir" /\ pc' \in {"for", "fallbackSleep", "crashed"}) =>
                cancelAt = "listdir"
          /\ cancelAt \in SleepPcs \cup {"while"} => pc' \notin CyclePcs
      ]_vars

\* C17 witness: the request arrived in the poll sleep while a file that no
\* scan had listed was waiting; the loop stopped without listing it
C17_Witness ==
    /\ pc = "stopped"
    /\ cancelAt = "sleeping"
    /\ scan = "ok"
    /\ <<"a">> \in dirFiles \ directoryContents

\* some trigger's pattern matches the name
MatchedBySome(f) == \E i \in 1..Len(triggers) : PatternMatchesName(triggers[i], f)

\* C18: in every cycle and both modes, every file the loop reads (or tries
\* to read), dispatches or tries to remove is a regular file of that
\* cycle's listing that the trigger at work matches: an entry that is no
\* regular file, a file that matches no trigger and a file (name) that was
\* not in the listing are never read, dispatched or removed in the cycle.
C18_OnlyListedMatchedFiles ==
    /\ directoryContents \cap SubDirs = {}
    /\ \A d \in dispatched :
          d[2] \in directoryContents /\ PatternMatchesName(triggers[d[1]], d[2])
    /\ \A r \in readFailed :
          r[2] \in directoryContents /\ PatternMatchesName(triggers[r[1]], r[2])
    /\ pc \in {"read", "dispatch", "remove"} =>
          \A f \in matches \cup DOMAIN namesAndData \cup allMatches :
              f \in directoryContents /\ PatternMatchesName(triggers[ti], f)
    /\ pc = "remove" => match \in directoryContents /\ MatchedBySome(match)
    /\ pc = "cleanup" => \A f \in matches : f \in directoryContents /\ MatchedBySome(f)
    /\ \A f \in FileNames \cup SubDirs :
          removeTried[f] > 0 => f \in directoryContents /\ MatchedBySome(f)

\* C18 witness: a cycle dispatched and removed the matching file it listed
\* while the file that matches nothing, and a matching file dropped after
\* the listing, were left alone
C18_Witness ==
    /\ CycleOver
    /\ directoryContents = {<<"a">>, <<"b">>}
    /\ dirFiles = {<<"A">>, <<"b">>}
    /\ DispatchedFor(<<"a">>) # {}
    /\ removeTried[<<"a">>] = 1
    /\ triggers[1].cls = "TriggerCaseInsensitiveMatch"

\* C16: once cancellation is requested the loop eventually reaches
\* Stopped (a process ended at once by a further signal, or by an exception
\* out of a failed read or a raising action, is left aside), and Stopped is
\* terminal: after it nothing is listed, dispatched or removed.
C16_CancelLeadsToStopped ==
    /\ ~keepGoing ~>
          \/ pc \in {"stopped", "killed"}
          \/ pc = "crashed" /\ exitedFrom \in {"read", "dispatch"}
    /\ [][pc = "stopped" =>
            /\ pc' = "stopped"
            /\ UNCHANGED <<dirFiles, scan, dispatched, removeTried>>]_vars

\* the loop is never cancelled or killed, the directory stays, and every
\* read and every removal succeeds (on an interpreter whose error reports
\* work, so that no exception ends the loop)
ServedUndisturbed ==
    /\ keepGoing /\ pc # "killed" /\ pyMajor = 2
    /\ dirExists /\ readFailed = {} /\ removeFailed = {}

\* the file was dispatched to a trigger that matches it and is gone
DispatchedAndRemoved(f) ==
    /\ \E d \in dispatched : d[2] = f /\ PatternMatchesName(triggers[d[1]], f)
    /\ removeTried[f] >= 1
    /\ f \notin dirFiles

\* C19: if the loop is never cancelled and reads and removals succeed,
\* every file in the watched directory that some trigger matches is
\* eventually dispatched to a matching trigger's action and removed, for
\* every trigger kind and both modes.
C19_MatchingFileEventuallyServed ==
    \A f \in FileNames :
        []ServedUndisturbed =>
            ((f \in dirFiles /\ MatchedBySome(f)) ~> DispatchedAndRemoved(f))

====
